---- MODULE Spec2Model ----
(***************************************************************************)
(* procmd: the cmd! macro (procmd_macro) and PipeCommand (procmd).          *)
(*                                                                         *)
(* Spec       : PipeCommand::run with its three entry points spawn,        *)
(*              output and status, together with the operating-system      *)
(*              processes and pipes the run creates.                       *)
(* SpecParser : the cmd! macro: Commands::parse, Commands::into_token_     *)
(*              stream and the evaluation of the expansion.                *)
(***************************************************************************)
EXTENDS Integers, Sequences, FiniteSets, TLC

\* ---------------------------------------------------------------- bounds
MaxStages == 3
MaxRuns == 2
PipeCap == 1
MaxStdinLines == 1
UsizeBits == 16
MaxTokens == 7

VARIABLES
    commands,     \* PipeCommand.commands: the [Command; N] array
    pc,           \* position of the caller inside run: idle, loop, terminal, wait, done
    mode,         \* which of spawn / output / status is executing
    i,            \* the loop index of run (0-based, as in the source)
    child,        \* the local `child: Option<Child>` of run
    term,         \* pid of the terminal process while f waits on it (0: none)
    result,       \* what the execution operation handed back to the caller
    procs,        \* every process spawned so far (pid = index)
    pipes,        \* every stdout pipe created so far (pipe id = index)
    attempts,     \* the spawn attempts of the current execution, in order
    termInvoked,  \* f was called in the current execution
    runs,         \* number of execution operations started
    input,        \* cmd!: the macro's input token sequence
    phase,        \* cmd!: input, expanded, evaluated
    expansion,    \* cmd!: the outcome of parse + into_token_stream
    value         \* cmd!: the value the expansion evaluates to

vars == <<commands, pc, mode, i, child, term, result, procs, pipes, attempts,
          termInvoked, runs, input, phase, expansion, value>>
runnerVars == <<commands, pc, mode, i, child, term, result, procs, pipes,
                attempts, termInvoked, runs>>
parserVars == <<input, phase, expansion, value>>

\* ------------------------------------------------- std::process::Command
Programs == {"echo", "wc"}
\* Programs for the pipe-closure behaviours: seq prints more lines than a
\* pipe holds, head -1 copies the first line it reads and exits.
PipePrograms == {"seq", "head"}
SeqLines == PipeCap + 2
Modes == {"spawn", "output", "status"}

\* Stdio configuration of a Command: 0 = not configured, k > 0 = the read end
\* of pipe k (a ChildStdout turned into a Stdio); stdout is "unset" or "piped".
NoPipe == 0

ArgsOf(program) ==
    CASE program = "echo" -> <<"hello">>
      [] program = "seq" -> <<ToString(SeqLines)>>
      [] program = "head" -> <<"-1">>
      [] OTHER -> <<"-l">>

CommandNew(program) ==
    [program |-> program, args |-> <<>>, envs |-> {},
     stdin |-> NoPipe, stdout |-> "unset", stderr |-> "unset"]

CommandArg(cmd, a) == [cmd EXCEPT !.args = Append(@, a)]

RECURSIVE CommandArgs(_, _)
CommandArgs(cmd, as) ==
    IF as = <<>> THEN cmd ELSE CommandArgs(CommandArg(cmd, Head(as)), Tail(as))

CommandStdinKeepFirst(cmd, k) ==
    IF cmd.stdin # NoPipe THEN cmd ELSE [cmd EXCEPT !.stdin = k]
CommandStdin(cmd, k) == [cmd EXCEPT !.stdin = k]

CommandStdoutPipedRebuilt(cmd) ==
    [CommandNew(cmd.program) EXCEPT !.stdin = cmd.stdin, !.stdout = "piped"]
CommandStdoutNotPiped(cmd) == cmd
CommandStdoutPiped(cmd) == [cmd EXCEPT !.stdout = "piped"]

\* PipeCommand::new
PipeCommandNew(cmds) == cmds

\* ------------------------------------------------------- Option<Child>
None == [some |-> FALSE, pid |-> 0, stdout |-> NoPipe]
Some(pid, out) == [some |-> TRUE, pid |-> pid, stdout |-> out]

NoResult == [kind |-> "None", stage |-> -1, pid |-> 0, out |-> <<>>,
             status |-> -1, msg |-> ""]
Ok(pid, out, st) == [kind |-> "Ok", stage |-> -1, pid |-> pid, out |-> out,
                     status |-> st, msg |-> ""]
Err(stage) == [kind |-> "Err", stage |-> stage, pid |-> 0, out |-> <<>>,
               status |-> -1, msg |-> "spawn failed"]
Panic(msg) == [kind |-> "Panic", stage |-> -1, pid |-> 0, out |-> <<>>,
               status |-> -1, msg |-> msg]

\* ------------------------------------------------------ usize arithmetic
UsizeMod == 2 ^ UsizeBits

\* a - b on usize: with overflow checks the subtraction panics, without them
\* it wraps.
UsizeSub(a, b, overflowChecks) ==
    IF a >= b THEN [panic |-> FALSE, val |-> a - b]
    ELSE IF overflowChecks THEN [panic |-> TRUE, val |-> 0]
    ELSE [panic |-> FALSE, val |-> (a - b + UsizeMod) % UsizeMod]

commands_len == Len(commands)

\* Evaluating the slice self.commands[..commands_len - 1] of the for loop:
\* the subtraction, then the range check of the slice.
LoopSlice(n, overflowChecks) ==
    LET e == UsizeSub(n, 1, overflowChecks) IN
    IF e.panic
    THEN [panic |-> TRUE, msg |-> "attempt to subtract with overflow", end |-> 0]
    ELSE IF e.val > n
    THEN [panic |-> TRUE, msg |-> "range end index out of range", end |-> 0]
    ELSE [panic |-> FALSE, msg |-> "", end |-> e.val]

\* Evaluating the index expression self.commands[commands_len - 1] that f is
\* applied to: the subtraction, then the bounds check of the index.
TerminalIndexFirst(n, overflowChecks) ==
    IF n = 0
    THEN [panic |-> TRUE, msg |-> "index out of bounds", idx |-> 0]
    ELSE [panic |-> FALSE, msg |-> "", idx |-> 0]
TerminalIndex(n, overflowChecks) ==
    LET e == UsizeSub(n, 1, overflowChecks) IN
    IF e.panic
    THEN [panic |-> TRUE, msg |-> "attempt to subtract with overflow", idx |-> 0]
    ELSE IF e.val >= n
    THEN [panic |-> TRUE, msg |-> "index out of bounds", idx |-> 0]
    ELSE [panic |-> FALSE, msg |-> "", idx |-> e.val]

\* How run starts: the slice expression is evaluated before the first
\* iteration; a panic there unwinds out of the execution operation.
EnterOutcomeChecked(n, overflowChecks) ==
    IF n = 0 THEN [pc |-> "done", result |-> Err(-1)]
    ELSE [pc |-> IF n > 1 THEN "loop" ELSE "terminal", result |-> NoResult]
EnterOutcome(n, overflowChecks) ==
    LET s == LoopSlice(n, overflowChecks) IN
    IF s.panic THEN [pc |-> "done", result |-> Panic(s.msg)]
    ELSE [pc |-> IF 0 < s.end THEN "loop" ELSE "terminal", result |-> NoResult]

\* The `?` on command.spawn() in the loop: an Err returns from run at once.
OnSpawnErrIgnore(stage) == [return |-> FALSE, result |-> NoResult]
OnSpawnErr(stage) == [return |-> TRUE, result |-> Err(stage)]

\* ------------------------------------------------ processes and pipes
Inherit == [kind |-> "inherit", id |-> 0]
Null == [kind |-> "null", id |-> 0]
Capture == [kind |-> "capture", id |-> 0]
PipeEnd(k) == [kind |-> "pipe", id |-> k]

Running == -1
ExitOk == 0
SigPipe == 141

\* The process the operating system creates for cmd: a configured stdin or
\* stdout wins, otherwise the default of the spawning method applies.
ChildProcess(cmd, stage, defaultIn, defaultOut, newPipe) ==
    [stage |-> stage, program |-> cmd.program, args |-> cmd.args,
     stdin |-> IF cmd.stdin # NoPipe THEN PipeEnd(cmd.stdin) ELSE defaultIn,
     stdout |-> IF cmd.stdout = "piped" THEN PipeEnd(newPipe) ELSE defaultOut,
     st |-> IF cmd.program \in {"wc", "head"} THEN "reading" ELSE "writing",
     count |-> 0, held |-> <<>>, out |-> <<>>, status |-> Running]

\* Child.stdout of the handle spawn returns: Some only when stdout is piped.
ChildStdoutNone(proc) == NoPipe
ChildStdout(proc) == IF proc.stdout.kind = "pipe" THEN proc.stdout.id ELSE NoPipe

PipesAfterSpawn(cmd) ==
    IF cmd.stdout = "piped" THEN Append(pipes, [buf |-> <<>>]) ELSE pipes

\* Dropping a Child (the local child of run going out of scope) closes the
\* handles it still owns and neither kills nor waits on the process.
DropChildKills(ps, c) ==
    IF c.some /\ ps[c.pid].st # "exited"
    THEN [ps EXCEPT ![c.pid].st = "exited", ![c.pid].status = 137]
    ELSE ps
DropChild(ps, c) == ps

\* Some handle on the read end of pipe k is open: in the caller (the local
\* child, a Command's stdin) or in a live process reading from it.
ReadEndOpen(k) ==
    \/ child.some /\ child.stdout = k
    \/ \E j \in 1..Len(commands) : commands[j].stdin = k
    \/ \E q \in 1..Len(procs) :
          procs[q].st # "exited" /\ procs[q].stdin = PipeEnd(k)

\* The write end of pipe k is open while the process writing to it lives.
WriteEndOpen(k) ==
    \E q \in 1..Len(procs) :
        procs[q].st # "exited" /\ procs[q].stdout = PipeEnd(k)

\* Every process of the earlier executions has terminated.  The caller is
\* modelled as starting its next execution operation only then; the
\* terminated processes then leave the process table, and a pipe with no
\* open end left is gone with its contents.
Quiescent == \A q \in 1..Len(procs) : procs[q].st = "exited"

\* ------------------------------------------------------ PipeCommand::run
\* spawn / output / status call run, which evaluates the loop's slice.
RunEnter(m) ==
    /\ pc \in {"idle", "done"}
    /\ result.kind # "Panic"
    /\ runs < MaxRuns
    /\ Quiescent
    /\ runs' = runs + 1
    /\ mode' = m
    /\ i' = 0
    /\ child' = None
    /\ term' = 0
    /\ attempts' = <<>>
    /\ termInvoked' = FALSE
    /\ \E overflowChecks \in BOOLEAN :
          LET o == EnterOutcome(commands_len, overflowChecks) IN
          /\ pc' = o.pc
          /\ result' = o.result
    /\ procs' = <<>>
    /\ pipes' = [k \in 1..Len(pipes) |->
                    IF ReadEndOpen(k) THEN pipes[k] ELSE [buf |-> <<>>]]
    /\ UNCHANGED commands
    /\ UNCHANGED parserVars

\* output() applied to the last command alone, without running the loop.
OutputTerminalOnly ==
    /\ pc \in {"idle", "done"}
    /\ result.kind # "Panic"
    /\ runs < MaxRuns
    /\ Quiescent
    /\ runs' = runs + 1
    /\ mode' = "output"
    /\ i' = 0
    /\ child' = None
    /\ term' = 0
    /\ attempts' = <<>>
    /\ termInvoked' = FALSE
    /\ \E overflowChecks \in BOOLEAN :
          LET o == EnterOutcome(commands_len, overflowChecks) IN
          /\ pc' = IF o.pc = "loop" THEN "terminal" ELSE o.pc
          /\ result' = o.result
    /\ procs' = <<>>
    /\ pipes' = [k \in 1..Len(pipes) |->
                    IF ReadEndOpen(k) THEN pipes[k] ELSE [buf |-> <<>>]]
    /\ UNCHANGED commands
    /\ UNCHANGED parserVars
spawn == RunEnter("spawn")
output == RunEnter("output")
status == RunEnter("status")

\* One iteration of the for loop over self.commands[..commands_len - 1].
RunLoop ==
    /\ pc = "loop"
    /\ LET idx == i + 1
           end == LoopSlice(commands_len, FALSE).end
           last == UsizeSub(commands_len, 1, FALSE).val
           cmd1 == IF child.some
                   THEN CommandStdin(commands[idx], child.stdout)
                   ELSE commands[idx]
           cmd2 == CommandStdoutPiped(cmd1)
           pid == Len(procs) + 1
           proc == ChildProcess(cmd2, i, Inherit, Inherit, Len(pipes) + 1)
           kept == DropChild(procs, child)
           nextpc == IF i + 1 < end THEN "loop" ELSE "terminal"
       IN
       IF child.some /\ child.stdout = NoPipe
       THEN \* child.stdout.unwrap() on None
            /\ result' = Panic("called Option::unwrap() on a None value")
            /\ pc' = "done"
            /\ child' = None
            /\ procs' = kept
            /\ UNCHANGED <<commands, i, pipes, attempts>>
       ELSE IF i = last
       THEN \* break
            /\ commands' = [commands EXCEPT ![idx] = cmd1]
            /\ pc' = "terminal"
            /\ child' = IF child.some THEN None ELSE child
            /\ procs' = kept
            /\ UNCHANGED <<i, result, pipes, attempts>>
       ELSE \E ok \in BOOLEAN :
            /\ attempts' = Append(attempts, [stage |-> i, ok |-> ok])
            /\ IF ok
               THEN /\ commands' = [commands EXCEPT ![idx] = cmd2]
                    /\ procs' = Append(kept, proc)
                    /\ pipes' = PipesAfterSpawn(cmd2)
                    /\ child' = Some(pid, ChildStdout(proc))
                    /\ i' = i + 1
                    /\ pc' = nextpc
                    /\ UNCHANGED result
               ELSE LET e == OnSpawnErr(i) IN
                    /\ commands' = [commands EXCEPT ![idx] = cmd2]
                    /\ result' = e.result
                    /\ child' = None
                    /\ i' = IF e.return THEN i ELSE i + 1
                    /\ pc' = IF e.return THEN "done" ELSE nextpc
                    /\ procs' = kept
                    /\ UNCHANGED pipes
    /\ UNCHANGED <<mode, term, termInvoked, runs>>
    /\ UNCHANGED parserVars

\* The defaults of the three closures handed to run: Command::spawn and
\* Command::status inherit stdin and stdout, Command::output gives the child
\* no stdin and captures its stdout.
DefaultStdin(m) == IF m = "output" THEN Null ELSE Inherit
DefaultStdoutCapture(m) == Capture
DefaultStdout(m) == IF m = "output" THEN Capture ELSE Inherit

\* f(&mut self.commands[commands_len - 1]): the terminal action starts.
RunTerminal ==
    /\ pc = "terminal"
    /\ LET t == TerminalIndex(commands_len, FALSE)
           cmd == commands[t.idx + 1]
           pid == Len(procs) + 1
           proc == ChildProcess(cmd, t.idx, DefaultStdin(mode),
                                DefaultStdout(mode), Len(pipes) + 1)
       IN
       /\ termInvoked' = TRUE
       /\ \E ok \in BOOLEAN :
            /\ attempts' = Append(attempts, [stage |-> t.idx, ok |-> ok])
            /\ IF ~ok
               THEN /\ result' = Err(t.idx)
                    /\ pc' = "done"
                    /\ child' = None
                    /\ procs' = DropChild(procs, child)
                    /\ UNCHANGED <<pipes, term>>
               ELSE /\ procs' = IF mode = "spawn"
                               THEN Append(DropChild(procs, child), proc)
                               ELSE Append(procs, proc)
                    /\ pipes' = PipesAfterSpawn(cmd)
                    /\ IF mode = "spawn"
                       THEN /\ result' = Ok(pid, <<>>, Running)
                            /\ pc' = "done"
                            /\ child' = None
                            /\ UNCHANGED term
                       ELSE /\ term' = pid
                            /\ pc' = "wait"
                            /\ UNCHANGED <<result, child>>
    /\ UNCHANGED <<commands, mode, i, runs>>
    /\ UNCHANGED parserVars

\* What Command::output / Command::status block on: the child they spawned
\* themselves, and no other process.
WaitOverAllReaped == \A q \in 1..Len(procs) : procs[q].st = "exited"
WaitOver == procs[term].st = "exited"

\* Command::output / Command::status return once the terminal process has
\* terminated; run then returns and its local child is dropped.
RunWait ==
    /\ pc = "wait"
    /\ WaitOver
    /\ result' = Ok(0, procs[term].out, procs[term].status)
    /\ pc' = "done"
    /\ child' = None
    /\ term' = 0
    /\ procs' = DropChild(procs, child)
    /\ UNCHANGED <<commands, mode, i, pipes, attempts, termInvoked, runs>>
    /\ UNCHANGED parserVars

\* The process after reading one line: wc -l counts it, head -1 keeps it
\* and reads no more.
AfterLine(q, line) ==
    IF q.program = "head"
    THEN [q EXCEPT !.count = @ + 1, !.held = <<line>>, !.st = "writing"]
    ELSE [q EXCEPT !.count = @ + 1]

\* ------------------------------------------------- the spawned programs
\* wc -l reads its stdin to end of file, counting lines.
ProcRead(p) ==
    /\ p \in 1..Len(procs)
    /\ procs[p].st = "reading"
    /\ LET q == procs[p] IN
       CASE q.stdin.kind = "null" ->
              /\ procs' = [procs EXCEPT ![p].st = "writing"]
              /\ UNCHANGED pipes
         [] q.stdin.kind = "inherit" ->
              \/ /\ q.count < MaxStdinLines
                 /\ procs' = [procs EXCEPT ![p] = AfterLine(q, "stdin")]
                 /\ UNCHANGED pipes
              \/ /\ procs' = [procs EXCEPT ![p].st = "writing"]
                 /\ UNCHANGED pipes
         [] OTHER ->
              LET k == q.stdin.id IN
              IF pipes[k].buf # <<>>
              THEN /\ pipes' = [pipes EXCEPT ![k].buf = Tail(@)]
                   /\ procs' = [procs EXCEPT ![p] = AfterLine(q, Head(pipes[k].buf))]
              ELSE /\ ~WriteEndOpen(k)
                   /\ procs' = [procs EXCEPT ![p].st = "writing"]
                   /\ UNCHANGED pipes
    /\ UNCHANGED <<commands, pc, mode, i, child, term, result, attempts,
                   termInvoked, runs>>
    /\ UNCHANGED parserVars

\* What a program prints next: echo its argument, wc -l the number of lines
\* read, head -1 the line it read, seq the next number.
Line(q) ==
    CASE q.program = "wc" -> ToString(q.count)
      [] q.program = "head" -> q.held[1]
      [] q.program = "seq" -> ToString(q.count + 1)
      [] OTHER -> "hello"

\* head -1 at end of input has nothing to print.
HasLine(q) == q.program = "head" => q.held # <<>>

\* The process after one line has gone out: it exits when that was its last.
AfterWrite(q) ==
    LET w == CASE q.program = "seq" -> [q EXCEPT !.count = @ + 1]
               [] q.program = "head" -> [q EXCEPT !.held = <<>>]
               [] OTHER -> q
    IN IF w.program = "seq" /\ w.count < SeqLines THEN w
       ELSE [w EXCEPT !.st = "exited", !.status = ExitOk]

\* A program writes one line to its stdout, and exits after its last line.
\* A write to a pipe blocks while the pipe is full and some read end is open,
\* and kills the writer (SIGPIPE) when no read end is open.
ProcWrite(p) ==
    /\ p \in 1..Len(procs)
    /\ procs[p].st = "writing"
    /\ LET q == procs[p] IN
       IF ~HasLine(q)
       THEN /\ procs' = [procs EXCEPT ![p].st = "exited", ![p].status = ExitOk]
            /\ UNCHANGED pipes
       ELSE
       CASE q.stdout.kind = "inherit" ->
              /\ procs' = [procs EXCEPT ![p] = AfterWrite(q)]
              /\ UNCHANGED pipes
         [] q.stdout.kind = "capture" ->
              /\ procs' = [procs EXCEPT
                              ![p] = AfterWrite([q EXCEPT !.out = Append(@, Line(q))])]
              /\ UNCHANGED pipes
         [] OTHER ->
              LET k == q.stdout.id IN
              IF ~ReadEndOpen(k)
              THEN /\ procs' = [procs EXCEPT ![p].st = "exited",
                                              ![p].status = SigPipe]
                   /\ UNCHANGED pipes
              ELSE /\ Len(pipes[k].buf) < PipeCap
                   /\ pipes' = [pipes EXCEPT ![k].buf = Append(@, Line(q))]
                   /\ procs' = [procs EXCEPT ![p] = AfterWrite(q)]
    /\ UNCHANGED <<commands, pc, mode, i, child, term, result, attempts,
                   termInvoked, runs>>
    /\ UNCHANGED parserVars

\* The caller drops the PipeCommand: its commands, and the pipe read ends
\* they own as their stdin, are gone.
DropPipeCommand ==
    /\ pc \in {"idle", "done"}
    /\ pc' = "dropped"
    /\ commands' = <<>>
    /\ UNCHANGED <<mode, i, child, term, result, procs, pipes, attempts,
                   termInvoked, runs>>
    /\ UNCHANGED parserVars

\* ------------------------------------------------------------ the runner
InitCommand(program) == CommandArgs(CommandNew(program), ArgsOf(program))

RECURSIVE SeqsUpTo(_, _)
SeqsUpTo(S, n) ==
    IF n = 0 THEN {<<>>}
    ELSE LET shorter == SeqsUpTo(S, n - 1) IN
         shorter \cup {Append(s, x) : s \in {t \in shorter : Len(t) = n - 1}, x \in S}

ParserIdle ==
    /\ input = <<>>
    /\ phase = "off"
    /\ expansion = [kind |-> "CompileError", blocks |-> <<>>]
    /\ value = [kind |-> "None", commands |-> <<>>]

Init ==
    /\ commands \in {PipeCommandNew(c) :
                        c \in SeqsUpTo({InitCommand(p) : p \in Programs}, MaxStages)}
    /\ pc = "idle"
    /\ mode = "spawn"
    /\ i = 0
    /\ child = None
    /\ term = 0
    /\ result = NoResult
    /\ runs = 0
    /\ procs = <<>>
    /\ pipes = <<>>
    /\ attempts = <<>>
    /\ termInvoked = FALSE
    /\ ParserIdle

Next ==
    \/ spawn
    \/ output
    \/ status
    \/ RunLoop
    \/ RunTerminal
    \/ RunWait
    \/ \E p \in 1..Len(procs) : ProcRead(p)
    \/ \E p \in 1..Len(procs) : ProcWrite(p)

Spec == Init /\ [][Next]_vars

\* Pipelines of programs that fill their pipes, run by a caller that may drop
\* the PipeCommand.  The operating system schedules every process, and the
\* caller's thread runs an execution operation it entered to its return;
\* nothing obliges the caller to start another operation or to drop the
\* PipeCommand.
InitPipes ==
    /\ commands \in {PipeCommandNew(c) :
                        c \in SeqsUpTo({InitCommand(p) : p \in PipePrograms}, MaxStages)}
    /\ pc = "idle"
    /\ mode = "spawn"
    /\ i = 0
    /\ child = None
    /\ term = 0
    /\ result = NoResult
    /\ runs = 0
    /\ procs = <<>>
    /\ pipes = <<>>
    /\ attempts = <<>>
    /\ termInvoked = FALSE
    /\ ParserIdle

NextPipes ==
    \/ Next
    \/ DropPipeCommand

Fairness ==
    /\ WF_vars(RunLoop)
    /\ WF_vars(RunTerminal)
    /\ WF_vars(RunWait)
    /\ \A p \in 1..MaxStages : WF_vars(ProcRead(p)) /\ WF_vars(ProcWrite(p))

SpecPipes == InitPipes /\ [][NextPipes]_vars /\ Fairness

\* ------------------------------------------------------------ cmd! macro
\* Tokens of the macro input: expressions (opaque to the macro), the comma
\* and the fat arrow.
Exprs == {"x", "y"}
Comma == ","
FatArrow == "=>"
Tokens == Exprs \cup {Comma, FatArrow}

ParseFail == [ok |-> FALSE, exprs |-> <<>>, commands |-> <<>>, pos |-> 0]

\* <syn::Expr as Parse>::parse at the cursor
ParseExpr(in, pos) ==
    IF pos <= Len(in) /\ in[pos] \in Exprs
    THEN [ok |-> TRUE, expr |-> in[pos], pos |-> pos + 1]
    ELSE [ok |-> FALSE, expr |-> "", pos |-> pos]

\* Punctuated::<Expr, Token![,]>::parse_separated_nonempty: a value, then
\* while a comma follows, the comma and another value.
RECURSIVE ParseSeparatedNonempty(_, _, _)
ParseSeparatedNonempty(in, pos, acc) ==
    LET e == ParseExpr(in, pos) IN
    IF ~e.ok THEN ParseFail
    ELSE IF e.pos <= Len(in) /\ in[e.pos] = Comma
    THEN ParseSeparatedNonempty(in, e.pos + 1, Append(acc, e.expr))
    ELSE [ok |-> TRUE, exprs |-> Append(acc, e.expr), commands |-> <<>>,
          pos |-> e.pos]

\* <Command as Parse>::parse
CommandParseLastIsProgram(in, pos) ==
    LET r == ParseSeparatedNonempty(in, pos, <<>>) IN
    IF ~r.ok THEN ParseFail
    ELSE [ok |-> TRUE, exprs |-> <<>>, pos |-> r.pos,
          commands |-> <<[program |-> r.exprs[Len(r.exprs)],
                          args |-> SubSeq(r.exprs, 1, Len(r.exprs) - 1)]>>]
CommandParse(in, pos) ==
    LET r == ParseSeparatedNonempty(in, pos, <<>>) IN
    IF ~r.ok THEN ParseFail
    ELSE [ok |-> TRUE, exprs |-> <<>>, pos |-> r.pos,
          commands |-> <<[program |-> Head(r.exprs), args |-> Tail(r.exprs)]>>]

\* The while loop of <Commands as Parse>::parse
RECURSIVE CommandsLoop(_, _, _)
RECURSIVE CommandsLoopTrailing(_, _, _)
CommandsLoopTrailing(in, pos, cmds) ==
    IF pos > Len(in)
    THEN [ok |-> TRUE, exprs |-> <<>>, commands |-> cmds, pos |-> pos]
    ELSE IF in[pos] # FatArrow THEN ParseFail
    ELSE IF pos = Len(in)
    THEN [ok |-> TRUE, exprs |-> <<>>, commands |-> cmds, pos |-> pos + 1]
    ELSE LET c == CommandParse(in, pos + 1) IN
         IF ~c.ok THEN ParseFail
         ELSE CommandsLoopTrailing(in, c.pos, cmds \o c.commands)
CommandsLoop(in, pos, cmds) ==
    IF pos > Len(in)
    THEN [ok |-> TRUE, exprs |-> <<>>, commands |-> cmds, pos |-> pos]
    ELSE IF in[pos] # FatArrow THEN ParseFail
    ELSE LET c == CommandParse(in, pos + 1) IN
         IF ~c.ok THEN ParseFail
         ELSE CommandsLoop(in, c.pos, cmds \o c.commands)

\* <Commands as Parse>::parse: Vec1::new(first command), then the loop
CommandsParse(in) ==
    LET c == CommandParse(in, 1) IN
    IF ~c.ok THEN ParseFail ELSE CommandsLoop(in, c.pos, c.commands)

\* The block quote! builds for one command:
\* { let mut cmd = Command::new(#program); #(cmd.arg(#args);)* cmd }
Block(command) ==
    <<[op |-> "new", expr |-> command.program]>>
    \o [k \in 1..Len(command.args) |-> [op |-> "arg", expr |-> command.args[k]]]
    \o <<[op |-> "cmd", expr |-> ""]>>

RECURSIVE Reverse(_)
Reverse(sq) == IF sq = <<>> THEN <<>> ELSE Append(Reverse(Tail(sq)), Head(sq))

\* Commands::into_token_stream: one block alone, or the blocks in order,
\* joined by commas, inside ::procmd::PipeCommand::new([...]).
IntoTokenStreamReversed(cmds) ==
    LET ts == [k \in 1..Len(cmds) |-> Block(cmds[k])] IN
    IF Tail(ts) = <<>>
    THEN [kind |-> "Command", blocks |-> <<Head(ts)>>]
    ELSE [kind |-> "PipeCommand", blocks |-> Reverse(ts)]
IntoTokenStream(cmds) ==
    LET ts == [k \in 1..Len(cmds) |-> Block(cmds[k])]
        first == Head(ts)
        rest == Tail(ts)
    IN IF rest = <<>>
       THEN [kind |-> "Command", blocks |-> <<first>>]
       ELSE [kind |-> "PipeCommand", blocks |-> <<first>> \o rest]

CompileError == [kind |-> "CompileError", blocks |-> <<>>]

\* cmd: parse_macro_input!(input as Commands), then into_token_stream; a
\* parse error becomes a compile error and nothing else is produced.
cmd(in) ==
    LET r == CommandsParse(in) IN
    IF r.ok THEN IntoTokenStream(r.commands) ELSE CompileError

\* Evaluating one expanded block builds the std Command.
RECURSIVE EvalBlock(_, _)
EvalBlock(stmts, acc) ==
    IF stmts = <<>> THEN acc
    ELSE LET st == Head(stmts) IN
         EvalBlock(Tail(stmts),
                   CASE st.op = "new" -> CommandNew(st.expr)
                     [] st.op = "arg" -> CommandArg(acc, st.expr)
                     [] OTHER -> acc)

NoValue == [kind |-> "None", commands |-> <<>>]

EvalExpansion(e) ==
    LET cs == [k \in 1..Len(e.blocks) |-> EvalBlock(e.blocks[k], CommandNew(""))] IN
    IF e.kind = "PipeCommand"
    THEN [kind |-> "PipeCommand", commands |-> PipeCommandNew(cs)]
    ELSE [kind |-> "Command", commands |-> cs]

\* The macro is expanded at compile time ...
Expand ==
    /\ phase = "input"
    /\ expansion' = cmd(input)
    /\ phase' = "expanded"
    /\ UNCHANGED <<input, value>>
    /\ UNCHANGED runnerVars

\* ... and a successful expansion is evaluated when the program runs.
Evaluate ==
    /\ phase = "expanded"
    /\ expansion.kind # "CompileError"
    /\ value' = EvalExpansion(expansion)
    /\ phase' = "evaluated"
    /\ UNCHANGED <<input, expansion>>
    /\ UNCHANGED runnerVars

InitParser ==
    /\ input \in SeqsUpTo(Tokens, MaxTokens)
    /\ phase = "input"
    /\ expansion = CompileError
    /\ value = NoValue
    /\ commands = <<>>
    /\ pc = "idle"
    /\ mode = "spawn"
    /\ i = 0
    /\ child = None
    /\ term = 0
    /\ result = NoResult
    /\ runs = 0
    /\ procs = <<>>
    /\ pipes = <<>>
    /\ attempts = <<>>
    /\ termInvoked = FALSE

NextParser == Expand \/ Evaluate

SpecParser == InitParser /\ [][NextParser]_vars

\* ================================================================ claims
StagesSpawned(s) == {q \in 1..Len(procs) : procs[q].stage = s}
AttemptsOf(s) == {k \in 1..Len(attempts) : attempts[k].stage = s}
ProgramsOf(cmds) == [k \in 1..Len(cmds) |-> cmds[k].program]

\* C1: in every execution, the process of each stage N >= 1 (the terminal
\* stage included) has as its stdin the stdout pipe of the process of stage
\* N-1 of the same execution.
C1_StdinIsUpstreamStdout ==
    \A q \in 1..Len(procs) :
        procs[q].stage >= 1 =>
            \E u \in StagesSpawned(procs[q].stage - 1) :
                /\ procs[u].stdout.kind = "pipe"
                /\ procs[q].stdin = procs[u].stdout

\* C2: when spawn() returns Ok, every stage 0..n-1 was spawned exactly once
\* (one attempt, one process) and the handle returned is the process of the
\* last stage.
C2_SpawnOkEveryStageOnce ==
    (pc = "done" /\ mode = "spawn" /\ result.kind = "Ok") =>
        /\ \A s \in 0..(commands_len - 1) :
              /\ Cardinality(StagesSpawned(s)) = 1
              /\ Cardinality(AttemptsOf(s)) = 1
        /\ Len(procs) = commands_len
        /\ result.pid \in StagesSpawned(commands_len - 1)

C2_Witness ==
    /\ pc = "done" /\ mode = "spawn" /\ result.kind = "Ok"
    /\ commands_len = 3
    /\ procs[result.pid].stage = 2

\* C3: output() on the pipeline echo hello => wc -l returns exit status 0 and
\* the captured line count 1: the terminal stage consumed the first stage's
\* output.
C3_EchoWcOutputIsOne ==
    (pc = "done" /\ mode = "output" /\ result.kind = "Ok"
        /\ ProgramsOf(commands) = <<"echo", "wc">>) =>
        /\ result.status = ExitOk
        /\ result.out = <<"1">>

\* C4: a failed spawn is the last spawn attempt of its execution and the
\* operation has returned that failure; when the failed stage is not the
\* terminal one, no later stage has a process and f was never invoked.
C4_SpawnFailureAborts ==
    \A k \in 1..Len(attempts) :
        ~attempts[k].ok =>
            /\ k = Len(attempts)
            /\ pc = "done"
            /\ result = Err(attempts[k].stage)
            /\ attempts[k].stage < commands_len - 1 =>
                  /\ ~termInvoked
                  /\ \A q \in 1..Len(procs) : procs[q].stage < attempts[k].stage

C4_Witness ==
    /\ commands_len = 3
    /\ pc = "done"
    /\ result = Err(1)
    /\ attempts = <<[stage |-> 0, ok |-> TRUE], [stage |-> 1, ok |-> FALSE]>>
    /\ Len(procs) = 1

\* C5 (as claimed): an execution operation on a pipeline with zero stages
\* returns an error value, before any spawn attempt.
C5_EmptyReturnsError ==
    (commands_len = 0 /\ pc = "done") =>
        (result.kind = "Err" /\ attempts = <<>>)

\* C5 (amended): an execution operation on a pipeline with zero stages
\* panics instead of returning a value, and no spawn was attempted before.
C5_EmptyPanicsNotError ==
    (commands_len = 0 /\ pc # "idle") =>
        /\ pc = "done"
        /\ result.kind \notin {"Ok", "Err"}
        /\ result.kind = "Panic"
        /\ attempts = <<>>

C5_Witness ==
    /\ commands_len = 0
    /\ pc = "done"
    /\ result = Panic("range end index out of range")

\* C6: each of spawn(), output() and status() panics on an empty commands
\* array, without spawning a process and without invoking f.
C6_EmptyPanics ==
    [][(commands_len = 0 /\ pc = "idle" /\ pc' # "idle") =>
          /\ mode' \in Modes
          /\ pc' = "done"
          /\ result'.kind = "Panic"
          /\ procs' = <<>>
          /\ attempts' = <<>>
          /\ ~termInvoked']_vars

C6_Witness ==
    /\ commands_len = 0
    /\ mode = "output"
    /\ result = Panic("attempt to subtract with overflow")
    /\ procs = <<>>

\* C7: on a single-stage pipeline the operation does what the same action
\* does applied to the bare Command: at most one process, no pipe, no stdin
\* or stdout redirection attached to the stage; the process has the stdin
\* and stdout the action gives by itself (inherited for spawn and status;
\* no stdin and captured stdout for output).
DirectStdin(m) == IF m = "output" THEN [kind |-> "null", id |-> 0]
                  ELSE [kind |-> "inherit", id |-> 0]
DirectStdout(m) == IF m = "output" THEN [kind |-> "capture", id |-> 0]
                   ELSE [kind |-> "inherit", id |-> 0]

C7_SingleStageIsDirect ==
    commands_len = 1 =>
        /\ commands[1].stdin = NoPipe
        /\ commands[1].stdout = "unset"
        /\ pipes = <<>>
        /\ Len(procs) <= 1
        /\ Len(attempts) <= 1
        /\ \A q \in 1..Len(procs) :
              /\ procs[q].stage = 0
              /\ procs[q].program = commands[1].program
              /\ procs[q].args = commands[1].args
              /\ procs[q].stdin = DirectStdin(mode)
              /\ procs[q].stdout = DirectStdout(mode)
        /\ (pc = "done" /\ result.kind = "Ok") => Len(procs) = 1

C7_Witness ==
    /\ commands_len = 1
    /\ pc = "done"
    /\ mode = "status"
    /\ result.kind = "Ok"
    /\ Len(procs) = 1

\* The stage specifications of an input: what stands between the arrows.
RECURSIVE SplitOn(_, _)
SplitOn(sq, sep) ==
    IF sq = <<>> THEN << <<>> >>
    ELSE LET r == SplitOn(Tail(sq), sep) IN
         IF Head(sq) = sep THEN << <<>> >> \o r
         ELSE << <<Head(sq)>> \o Head(r) >> \o Tail(r)

StageSpecs(in) == SplitOn(in, FatArrow)
IsExprToken(t) == t \in Exprs
ExprsOf(seg) == SelectSeq(seg, IsExprToken)

\* C8: a parsed description of k >= 2 stages evaluates to a PipeCommand of
\* exactly k commands in source order; command j has the first expression
\* of stage specification j as program and the remaining ones as args, and
\* equals what stage specification j yields when parsed alone.
C8_PipedStagesInOrder ==
    (phase = "evaluated" /\ Len(StageSpecs(input)) >= 2) =>
        LET specs == StageSpecs(input) IN
        /\ value.kind = "PipeCommand"
        /\ Len(value.commands) = Len(specs)
        /\ \A j \in 1..Len(specs) :
              /\ value.commands[j].program = Head(ExprsOf(specs[j]))
              /\ value.commands[j].args = Tail(ExprsOf(specs[j]))
              /\ value.commands[j] = EvalExpansion(cmd(specs[j])).commands[1]

C8_Witness ==
    /\ phase = "evaluated"
    /\ input = <<"x", ",", "y", "=>", "y", "=>", "x">>
    /\ ProgramsOf(value.commands) = <<"x", "y", "x">>
    /\ value.commands[1].args = <<"y">>

\* C9: a single stage specification p, a1, a2 parses to one command and
\* evaluates to a Command with program p and args a1, a2 in that order,
\* with no environment and no redirection set.
C9_SingleStage ==
    (phase = "evaluated" /\ Len(StageSpecs(input)) = 1) =>
        /\ Len(CommandsParse(input).commands) = 1
        /\ Len(value.commands) = 1
        /\ value.commands[1].program = Head(ExprsOf(input))
        /\ value.commands[1].args = Tail(ExprsOf(input))
        /\ value.commands[1].envs = {}
        /\ value.commands[1].stdin = NoPipe
        /\ value.commands[1].stdout = "unset"

C9_Witness ==
    /\ phase = "evaluated"
    /\ input = <<"x", ",", "y", ",", "x">>
    /\ value.commands[1].args = <<"y", "x">>

\* C10: an input with a stage specification lacking its program expression
\* (an empty stage, a separator with no stage after it, the empty input)
\* is a parse error, and no stage sequence is produced.
LacksProgram(seg) == seg = <<>> \/ Head(seg) \notin Exprs

C10_MalformedFails ==
    (phase # "input" /\ \E j \in 1..Len(StageSpecs(input)) :
                            LacksProgram(StageSpecs(input)[j])) =>
        /\ expansion = CompileError
        /\ phase = "expanded"
        /\ value = NoValue
        /\ ~CommandsParse(input).ok

C10_Witness ==
    /\ phase = "expanded"
    /\ input = <<"x", "=>", "y", "=>">>
    /\ expansion = CompileError

\* C11: the runner waits on no non-terminal stage.  Only output() and
\* status() wait, and only on the terminal stage's process: as soon as that
\* process has terminated they can return, whatever the other stages do;
\* spawn() never waits.
C11_WaitsOnlyOnTerminal ==
    /\ pc = "wait" =>
          /\ mode \in {"output", "status"}
          /\ term \in StagesSpawned(commands_len - 1)
          /\ procs[term].st = "exited" => ENABLED RunWait
    /\ mode = "spawn" => pc # "wait"

C11_Witness ==
    /\ pc = "done"
    /\ mode = "output"
    /\ result.kind = "Ok"
    /\ commands_len = 3
    /\ \A s \in 0..1 : \E q \in StagesSpawned(s) : procs[q].st # "exited"

\* C12: for a pipeline of n >= 1 stages, an execution returns success exactly
\* when every spawn it made (stages 0..n-2 and the terminal action on stage
\* n-1) succeeded; the success value is the terminal action's own result (the
\* terminal child for spawn, its captured output or exit status for
\* output/status), and a failure carries the error alone, no partial result.
AllAttemptsOk ==
    /\ Len(attempts) = commands_len
    /\ \A k \in 1..Len(attempts) : attempts[k].ok

C12_OkIffAllSpawnsOk ==
    (pc = "done" /\ commands_len >= 1) =>
        /\ result.kind \in {"Ok", "Err"}
        /\ result.kind = "Ok" <=> AllAttemptsOk
        /\ result.kind = "Ok" =>
              \E q \in StagesSpawned(commands_len - 1) :
                 IF mode = "spawn"
                 THEN result = Ok(q, <<>>, Running)
                 ELSE result = Ok(0, procs[q].out, procs[q].status)
        /\ result.kind = "Err" =>
              /\ result = Err(attempts[Len(attempts)].stage)
              /\ ~attempts[Len(attempts)].ok

C12_Witness ==
    /\ pc = "done"
    /\ commands_len = 3
    /\ mode = "status"
    /\ result.kind = "Ok"
    /\ AllAttemptsOk

\* C13: stages are spawned strictly in index order: the k-th spawn attempt of
\* an execution is for stage k-1 and is made only after every earlier one
\* succeeded, and a process reading from a pipe was created after the
\* process writing to that pipe.
C13_SpawnedInIndexOrder ==
    /\ \A k \in 1..Len(attempts) :
          /\ attempts[k].stage = k - 1
          /\ k < Len(attempts) => attempts[k].ok
    /\ \A q \in 1..Len(procs) :
          /\ procs[q].stage = q - 1
          /\ procs[q].stdin.kind = "pipe" =>
                \E u \in 1..(q - 1) :
                   /\ procs[u].stage = procs[q].stage - 1
                   /\ procs[u].stdout = procs[q].stdin

C13_Witness ==
    /\ commands_len = 3
    /\ Len(procs) = 3
    /\ procs[2].stdin.kind = "pipe"
    /\ procs[3].stage = 2

\* C14: when the spawn of stage i fails, the already spawned stages 0..i-1
\* are neither killed nor waited on: the failing step leaves every process
\* and every pipe as it was and returns at once, each earlier stage having
\* been spawned exactly once.
SpawnFailsNow == result'.kind = "Err" /\ result.kind # "Err"

C14_EarlierStagesLeftRunning ==
    [][SpawnFailsNow =>
          /\ procs' = procs
          /\ pipes' = pipes
          /\ pc' = "done"
          /\ \A s \in 0..(result'.stage - 1) :
                Cardinality(StagesSpawned(s)) = 1]_vars

C14_Witness ==
    /\ pc = "done"
    /\ result = Err(1)
    /\ commands_len = 3
    /\ Len(procs) = 1
    /\ procs[1].st # "exited"
    /\ procs[1].status = Running

\* C15: in every mode (spawn, output, status) the non-terminal stages are
\* treated alike: each is spawned once, in order, reading the caller's stdin
\* (stage 0) or the stdout pipe of its upstream stage and writing to a new
\* pipe, and all of stages 0..n-2 have been spawned when the terminal action
\* is invoked; the modes differ only in the terminal action.
NonTerminalStdin(q) ==
    IF procs[q].stage = 0 THEN [kind |-> "inherit", id |-> 0]
    ELSE procs[q - 1].stdout

C15_NonTerminalStagesModeIndependent ==
    /\ \A q \in 1..Len(procs) :
          procs[q].stage < commands_len - 1 =>
             /\ procs[q].stage = q - 1
             /\ procs[q].program = commands[q].program
             /\ procs[q].stdout.kind = "pipe"
             /\ procs[q].stdin = NonTerminalStdin(q)
    /\ termInvoked =>
          \A s \in 0..(commands_len - 2) :
             /\ Cardinality(StagesSpawned(s)) = 1
             /\ Cardinality(AttemptsOf(s)) = 1

C15_Witness ==
    /\ mode = "output"
    /\ termInvoked
    /\ commands_len = 3
    /\ Cardinality(StagesSpawned(0)) = 1
    /\ Cardinality(StagesSpawned(1)) = 1

\* C16: no step changes the number of commands, nor the program, arguments
\* or environment of any command: the runner only attaches stdin / stdout
\* redirections.
C16_ProgramArgsEnvUnchanged ==
    [][/\ Len(commands') = Len(commands)
       /\ \A j \in 1..Len(commands) :
             /\ commands'[j].program = commands[j].program
             /\ commands'[j].args = commands[j].args
             /\ commands'[j].envs = commands[j].envs]_vars

C16_Witness ==
    /\ pc = "done"
    /\ result.kind = "Ok"
    /\ commands_len = 3
    /\ commands[2].stdin # NoPipe
    /\ commands[2].stdout = "piped"
    /\ commands[2].args # <<>>

\* C17 (as stated): the pipeline sets no stdin on stage 0, so the process of
\* stage 0 inherits the caller's stdin; no stdout is set on the terminal
\* stage and no stderr on any stage; every non-terminal stage has its stdout
\* piped.
NoStdinOnFirst == commands_len >= 1 => commands[1].stdin = NoPipe
NoStdoutOnTerminal ==
    commands_len >= 1 => commands[commands_len].stdout = "unset"
NoStderrAnywhere == \A j \in 1..commands_len : commands[j].stderr = "unset"
NonTerminalStdoutPiped ==
    \A q \in 1..Len(procs) :
       procs[q].stage < commands_len - 1 =>
          /\ procs[q].stdout.kind = "pipe"
          /\ commands[procs[q].stage + 1].stdout = "piped"

C17_FirstStageInheritsStdin ==
    /\ NoStdinOnFirst
    /\ NoStdoutOnTerminal
    /\ NoStderrAnywhere
    /\ NonTerminalStdoutPiped
    /\ \A q \in StagesSpawned(0) : procs[q].stdin = [kind |-> "inherit", id |-> 0]

\* C17 (amended): as above, but the process of stage 0 inherits the caller's
\* stdin only where spawn applies, i.e. when stage 0 is a non-terminal stage
\* or the mode is spawn or status; a one-stage pipeline run with output()
\* gives stage 0 a null stdin, and the terminal stage's stdout is whatever
\* the terminal action gives it.
C17_FirstStageStdinByTerminalAction ==
    /\ NoStdinOnFirst
    /\ NoStdoutOnTerminal
    /\ NoStderrAnywhere
    /\ NonTerminalStdoutPiped
    /\ \A q \in StagesSpawned(0) :
          procs[q].stdin = IF commands_len = 1 THEN DirectStdin(mode)
                           ELSE [kind |-> "inherit", id |-> 0]
    /\ \A q \in StagesSpawned(commands_len - 1) :
          procs[q].stdout = DirectStdout(mode)

C17_Witness ==
    /\ commands_len = 1
    /\ mode = "output"
    /\ Len(procs) = 1
    /\ procs[1].stdin = [kind |-> "null", id |-> 0]
    /\ commands[1].stdin = NoPipe

\* C19: whenever the runner holds the handle of a spawned non-terminal
\* stage, its stdout handle is present (the stage was spawned with a piped
\* stdout) and has not been taken yet, so taking it to connect the next
\* stage never fails.
C19_ChildStdoutPresent ==
    /\ result.msg # "called Option::unwrap() on a None value"
    /\ child.some =>
          /\ child.stdout # NoPipe
          /\ child.pid \in 1..Len(procs)
          /\ procs[child.pid].stdout = PipeEnd(child.stdout)
          /\ \A j \in 1..commands_len : commands[j].stdin # child.stdout

C19_Witness ==
    /\ commands_len = 3
    /\ Len(procs) >= 2
    /\ procs[1].stdout.kind = "pipe"
    /\ commands[2].stdin = procs[1].stdout.id
    /\ procs[2].stdin = procs[1].stdout
    /\ result.kind # "Panic"

\* C20: every spawned intermediate stage i (1 <= i <= n-2) reads from the
\* stdout pipe of the stage i-1 process spawned in the same execution, in
\* later executions of the same pipeline as well.
C20_IntermediateReadsUpstream ==
    \A q \in 1..Len(procs) :
       (1 <= procs[q].stage /\ procs[q].stage <= commands_len - 2) =>
          \E u \in StagesSpawned(procs[q].stage - 1) :
             /\ procs[u].stdout.kind = "pipe"
             /\ procs[q].stdin = procs[u].stdout

C20_Witness ==
    /\ runs = 2
    /\ commands_len = 3
    /\ Len(procs) >= 2
    /\ procs[2].stage = 1
    /\ procs[2].stdin = procs[1].stdout
    /\ procs[2].stdin.id > 1

\* C18: a non-terminal stage whose write is blocked on a full pipe that no
\* live process reads is eventually unblocked or killed by a broken pipe; it
\* never stays blocked forever, also when the calling process still holds
\* the pipe's read end.
BlockedOnUnreadPipe(p) ==
    /\ p \in 1..Len(procs)
    /\ procs[p].st = "writing"
    /\ procs[p].stdout.kind = "pipe"
    /\ Len(pipes[procs[p].stdout.id].buf) >= PipeCap
    /\ \A q \in 1..Len(procs) :
          procs[q].stdin = procs[p].stdout => procs[q].st = "exited"

C18_BlockedWriterEventuallyFreed ==
    \A p \in 1..MaxStages : BlockedOnUnreadPipe(p) ~> ~BlockedOnUnreadPipe(p)

====
